---- MODULE Spec2Model ----
(***************************************************************************)
(* Model of csv_sql.py (CSV -> PostgreSQL script conversion) and of        *)
(* summary.py (dataframe_info).                                            *)
(*                                                                         *)
(* Text is a sequence of one-character strings.  File content is a         *)
(* sequence of bytes; an ASCII byte is written as its character, the       *)
(* bytes above 0x7F that occur are written "x82", "x83", "xA9", "xC2",     *)
(* "xC3", "xE9".                                                           *)
(***************************************************************************)
EXTENDS Integers, Sequences, FiniteSets, TLC

VARIABLES
    fs,            \* the files on disk: a function from the existing paths to bytes
    srcRecords,    \* the records the initial source file was produced from
    calls,         \* the number of calls of csv_postgresql so far
    pc,            \* position of csv_postgresql
    file,          \* argument: source path
    schema_name,   \* argument, then local: resolved schema name
    table_name,    \* argument, then local: resolved table name
    encoding,      \* argument __encoding
    given,         \* arguments schema_name and table_name as passed
    header,        \* local: header
    ivalues_string,\* local: ivalues_string
    handles,       \* the file objects currently open
    opens,         \* the open() calls of the current call, in order
    exc,           \* the exception the call ended with, or "none"
    fs0,           \* the files on disk when the current call started
    prev,          \* the previous completed call: arguments, outcome, output
    df,            \* dataframe_info: the dataframe
    dargs,         \* dataframe_info: the arguments to_skip_cols, unique_count_cols, verbose_cols
    dpc,           \* dataframe_info: position
    columns,       \* dataframe_info: local columns, or Unbound
    summary,       \* dataframe_info: local summary (key order and lists)
    dexc           \* dataframe_info: exception raised, or "none"

csvVars == <<fs, srcRecords, calls, pc, file, schema_name, table_name, encoding, given,
             header, ivalues_string, handles, opens, exc, fs0, prev>>
infoVars == <<df, dargs, dpc, columns, summary, dexc>>
vars == <<csvVars, infoVars>>

----------------------------------------------------------------------------
(* Text helpers                                                            *)

UpperChars == <<"A", "B", "C", "D", "E", "F", "G", "H", "I", "J", "K", "L", "M",
                "N", "O", "P", "Q", "R", "S", "T", "U", "V", "W", "X", "Y", "Z">>
LowerChars == <<"a", "b", "c", "d", "e", "f", "g", "h", "i", "j", "k", "l", "m",
                "n", "o", "p", "q", "r", "s", "t", "u", "v", "w", "x", "y", "z">>

\* str.lower() on one character
LowerChar(c) ==
    IF \E i \in 1..Len(UpperChars) : UpperChars[i] = c
    THEN LowerChars[CHOOSE i \in 1..Len(UpperChars) : UpperChars[i] = c]
    ELSE c

\* str.lower()
Lower(s) == [i \in 1..Len(s) |-> LowerChar(s[i])]

\* the characters the class [\s-] matches
WhitespaceChars == {" ", "\t", "\n", "\r", "\f"}
SepChars == WhitespaceChars \cup {"-"}

\* one replacement of the substitution: the matched character becomes '_'
SubChar(c) == IF c \in SepChars THEN "_" ELSE c

\* a variant that deletes a separator that follows a separator (pattern [\s-]+)
SubRuns(s) ==
    LET keep == {i \in 1..Len(s) : ~(s[i] \in SepChars /\ i > 1 /\ s[i-1] \in SepChars)}
        RECURSIVE Pick(_)
        Pick(i) == IF i > Len(s) THEN <<>>
                   ELSE IF i \in keep THEN <<SubChar(s[i])>> \o Pick(i + 1)
                   ELSE Pick(i + 1)
    IN Pick(1)

\* __sub(r'[\s-]', '_', s): every match, one character long, is replaced
Sub(s) == [i \in 1..Len(s) |-> SubChar(s[i])]

\* os.path.basename: what follows the last '/'
Basename(p) ==
    LET slashes == {i \in 1..Len(p) : p[i] = "/"}
        last == IF slashes = {} THEN 0 ELSE CHOOSE i \in slashes : \A j \in slashes : j <= i
    IN SubSeq(p, last + 1, Len(p))

\* s.split('.')[0]: what precedes the first '.'
BeforeFirstDot(s) ==
    LET dots == {i \in 1..Len(s) : s[i] = "."}
        first == IF dots = {} THEN Len(s) + 1 ELSE CHOOSE i \in dots : \A j \in dots : i <= j
    IN SubSeq(s, 1, first - 1)

\* filename(file_path)
filename(file_path) == Sub(Lower(BeforeFirstDot(Basename(file_path))))

\* a variant without .lower()
NormalizeOverrideNoLower(name) == Sub(name)

\* the else branches of csv_postgresql: __sub(r'[\s-]', '_', name).lower()
NormalizeOverride(name) == Lower(Sub(name))

\* the two if/else statements resolving schema_name and table_name
ResolveName(name, file_path) ==
    IF Len(name) = 0 THEN filename(file_path) ELSE NormalizeOverride(name)

----------------------------------------------------------------------------
(* Text encodings: open(..., encoding=...)                                 *)

Encodings == {"utf-8", "latin-1"}

\* The characters above U+007F that occur are named by their code point; in
\* latin-1 the byte of such a character has the same name.
HighChars == {"x82", "x83", "xA9", "xC2", "xC3", "xE9"}
Utf8Leads == {"xC2", "xC3"}
Utf8Conts == {"x82", "x83", "xA9"}

\* utf-8: the two bytes of a character of U+0080..U+00FF
Utf8Bytes(c) ==
    CASE c = "x82" -> <<"xC2", "x82">>
      [] c = "x83" -> <<"xC2", "x83">>
      [] c = "xA9" -> <<"xC2", "xA9">>
      [] c = "xC2" -> <<"xC3", "x82">>
      [] c = "xC3" -> <<"xC3", "x83">>
      [] c = "xE9" -> <<"xC3", "xA9">>

\* utf-8: the character of a lead byte and a continuation byte
Utf8Char(lead, cont) ==
    CHOOSE c \in HighChars : Utf8Bytes(c) = <<lead, cont>>

\* index of the first byte the utf-8 decoder rejects, 0 when there is none
Utf8FirstBad(b) ==
    LET bad == {i \in 1..Len(b) :
                   \/ b[i] \in HighChars \ (Utf8Leads \cup Utf8Conts)
                   \/ b[i] \in Utf8Leads /\ (i = Len(b) \/ b[i+1] \notin Utf8Conts)
                   \/ b[i] \in Utf8Conts /\ (i = 1 \/ b[i-1] \notin Utf8Leads)}
    IN IF bad = {} THEN 0 ELSE CHOOSE i \in bad : \A j \in bad : i <= j

\* utf-8 decoding of bytes the decoder accepts
Utf8Text(b) ==
    LET marked == [i \in 1..Len(b) |->
                      IF b[i] \in Utf8Leads THEN Utf8Char(b[i], b[i+1])
                      ELSE IF b[i] \in Utf8Conts THEN ""
                      ELSE b[i]]
    IN SelectSeq(marked, LAMBDA c : c # "")

\* index of the first byte that cannot be decoded with enc, 0 when there is none
FirstBad(b, enc) == IF enc = "utf-8" THEN Utf8FirstBad(b) ELSE 0

\* bytes.decode(enc) of bytes that can be decoded
Decode(b, enc) == IF enc = "utf-8" THEN Utf8Text(b) ELSE b

RECURSIVE Flatten(_)
\* ''.join(parts), computed by halves
Flatten(parts) ==
    IF Len(parts) = 0 THEN <<>>
    ELSE IF Len(parts) = 1 THEN parts[1]
    ELSE LET h == Len(parts) \div 2
         IN Flatten(SubSeq(parts, 1, h)) \o Flatten(SubSeq(parts, h + 1, Len(parts)))

\* str.encode(enc); every character of the model has a latin-1 byte
Encode(t, enc) ==
    IF enc = "utf-8"
    THEN Flatten([i \in 1..Len(t) |->
                     IF t[i] \in HighChars THEN Utf8Bytes(t[i]) ELSE <<t[i]>>])
    ELSE t

\* sep.join(parts)
Join(sep, parts) ==
    IF Len(parts) = 0 THEN <<>>
    ELSE Flatten([i \in 1..(2 * Len(parts) - 1) |->
                     IF i % 2 = 1 THEN parts[(i + 1) \div 2] ELSE sep])

----------------------------------------------------------------------------
(* csv.reader(csvfile) with the default dialect: delimiter ',', quotechar  *)
(* '"', doublequote, no escapechar, not strict; the file is opened with    *)
(* newline='', so its lines end at '\n', '\r' or '\r\n' and keep their     *)
(* terminator.                                                             *)

\* the lines iterating over the text file yields
SplitLines(t) ==
    LET n == Len(t)
        ends == {i \in 1..n : \/ t[i] = "\n"
                              \/ t[i] = "\r" /\ (i = n \/ t[i+1] # "\n")
                              \/ i = n}
        RECURSIVE From(_)
        From(start) ==
            IF start > n THEN <<>>
            ELSE LET e == CHOOSE i \in ends : i >= start /\ \A j \in ends : j >= start => i <= j
                 IN <<SubSeq(t, start, e)>> \o From(e + 1)
    IN From(1)

EOL == "EOL"

\* parse_reset
ParserReset == [state |-> "START_RECORD", field |-> <<>>, fields |-> <<>>, error |-> FALSE]

\* parse_save_field
SaveField(st) == [st EXCEPT !.fields = Append(@, st.field), !.field = <<>>]

\* parse_add_char
AddChar(st, c) == [st EXCEPT !.field = Append(@, c)]

AfterNewline(c) == IF c = EOL THEN "START_RECORD" ELSE "EAT_CRNL"

\* parse_process_char, state START_FIELD (also entered from START_RECORD)
StartField(st, c) ==
    IF c \in {"\n", "\r", EOL} THEN [SaveField(st) EXCEPT !.state = AfterNewline(c)]
    ELSE IF c = "\"" THEN [st EXCEPT !.state = "IN_QUOTED_FIELD"]
    ELSE IF c = "," THEN [SaveField(st) EXCEPT !.state = "START_FIELD"]
    ELSE [AddChar(st, c) EXCEPT !.state = "IN_FIELD"]

\* parse_process_char
ProcessChar(st, c) ==
    CASE st.state = "START_RECORD" ->
            IF c = EOL THEN st
            ELSE IF c \in {"\n", "\r"} THEN [st EXCEPT !.state = "EAT_CRNL"]
            ELSE StartField(st, c)
      [] st.state = "START_FIELD" -> StartField(st, c)
      [] st.state = "IN_FIELD" ->
            IF c \in {"\n", "\r", EOL} THEN [SaveField(st) EXCEPT !.state = AfterNewline(c)]
            ELSE IF c = "," THEN [SaveField(st) EXCEPT !.state = "START_FIELD"]
            ELSE AddChar(st, c)
      [] st.state = "IN_QUOTED_FIELD" ->
            IF c = EOL THEN st
            ELSE IF c = "\"" THEN [st EXCEPT !.state = "QUOTE_IN_QUOTED_FIELD"]
            ELSE AddChar(st, c)
      [] st.state = "QUOTE_IN_QUOTED_FIELD" ->
            IF c = "\"" THEN [AddChar(st, c) EXCEPT !.state = "IN_QUOTED_FIELD"]
            ELSE IF c = "," THEN [SaveField(st) EXCEPT !.state = "START_FIELD"]
            ELSE IF c \in {"\n", "\r", EOL}
                 THEN [SaveField(st) EXCEPT !.state = AfterNewline(c)]
            ELSE [AddChar(st, c) EXCEPT !.state = "IN_FIELD"]
      [] st.state = "EAT_CRNL" ->
            IF c \in {"\n", "\r"} THEN st
            ELSE IF c = EOL THEN [st EXCEPT !.state = "START_RECORD"]
            ELSE [st EXCEPT !.error = TRUE]

RECURSIVE ProcessLine(_, _, _)
\* the loop of Reader_iternext over the characters of one line, then EOL
ProcessLine(st, line, i) ==
    IF st.error THEN st
    ELSE IF i > Len(line) THEN ProcessChar(st, EOL)
    ELSE ProcessLine(ProcessChar(st, line[i]), line, i + 1)

RECURSIVE ReadRecord(_, _, _)
\* the do-while loop of Reader_iternext: lines from number k are consumed
\* until a record is complete.  Result: stop (StopIteration), error
\* (csv.Error), eof (the input ran out before the record was complete), the
\* record, and the number of the next line to read.
ReadRecord(st, lines, k) ==
    IF k > Len(lines)
    THEN IF Len(st.field) # 0 \/ st.state = "IN_QUOTED_FIELD"
         THEN [stop |-> FALSE, error |-> FALSE, eof |-> TRUE,
               fields |-> SaveField(st).fields, next |-> k]
         ELSE [stop |-> TRUE, error |-> FALSE, eof |-> TRUE, fields |-> <<>>, next |-> k]
    ELSE LET st2 == ProcessLine(st, lines[k], 1)
         IN IF st2.error
            THEN [stop |-> FALSE, error |-> TRUE, eof |-> FALSE,
                  fields |-> <<>>, next |-> k + 1]
            ELSE IF st2.state # "START_RECORD" THEN ReadRecord(st2, lines, k + 1)
            ELSE [stop |-> FALSE, error |-> FALSE, eof |-> FALSE,
                  fields |-> st2.fields, next |-> k + 1]

\* next(reader), reading from line k
NextRecord(lines, k) == ReadRecord(ParserReset, lines, k)

RECURSIVE RecordsFrom(_, _)
\* for row in reader: the records from line k on, and whether the reader
\* raised csv.Error
RecordsFrom(lines, k) ==
    LET r == NextRecord(lines, k)
    IN IF r.stop THEN [rows |-> <<>>, error |-> FALSE]
       ELSE IF r.error THEN [rows |-> <<>>, error |-> TRUE]
       ELSE LET rest == RecordsFrom(lines, r.next)
            IN [rows |-> <<r.fields>> \o rest.rows, error |-> rest.error]

----------------------------------------------------------------------------
(* The formatting functions of csv_sql.py                                  *)

\* f'"{item}" TEXT'
ColumnLine(item) == <<"\"">> \o item \o <<"\"", " ", "T", "E", "X", "T">>

\* _column_def(header)
column_def(hdr) ==
    <<"\t">> \o Join(<<",", " ", "\n", "\t">>, [i \in 1..Len(hdr) |-> ColumnLine(hdr[i])])

\* a variant that leaves quotes as they are
EscapeNothing(item) == item

\* str(item).replace("'", "''")
EscapeQuotes(item) ==
    Flatten([i \in 1..Len(item) |-> IF item[i] = "'" THEN <<"'", "'">> ELSE <<item[i]>>])

\* f"""'{str(item).replace("'", "''")}'"""
QuoteItem(item) == <<"'">> \o EscapeQuotes(item) \o <<"'">>

\* "\n\t(" + ", ".join([... for item in row]) + ")"
FormatRow(row) ==
    <<"\n", "\t", "(">> \o Join(<<",", " ">>, [i \in 1..Len(row) |-> QuoteItem(row[i])]) \o <<")">>

\* ", ".join(format_string)
FormatRows(rows) == Join(<<",", " ">>, [i \in 1..Len(rows) |-> FormatRow(rows[i])])

\* f'''CREATE SCHEMA {schema_name}'''
SchemaFragment(sn) ==
    <<"C", "R", "E", "A", "T", "E", " ", "S", "C", "H", "E", "M", "A", " ">> \o sn

\* f'''{drop_string};\n{create_string} (\n{definition_string}\n)'''
TableFragment(sn, tn, hdr) ==
    <<"D", "R", "O", "P", " ", "T", "A", "B", "L", "E", " ", "I", "F", " ",
      "E", "X", "I", "S", "T", "S", " ">> \o sn \o <<".">> \o tn
    \o <<";", "\n">>
    \o <<"C", "R", "E", "A", "T", "E", " ", "T", "A", "B", "L", "E", " ">>
    \o sn \o <<".">> \o tn
    \o <<" ", "(", "\n">> \o column_def(hdr) \o <<"\n", ")">>

\* f'"{item}"'
QuoteColumn(item) == <<"\"">> \o item \o <<"\"">>

\* f'''{imain_string}\n\t({icolumns_string})\nVALUES{ivalues_string}'''
InsertFragment(sn, tn, hdr, values) ==
    <<"I", "N", "S", "E", "R", "T", " ", "I", "N", "T", "O", " ">>
    \o sn \o <<".">> \o tn
    \o <<"\n", "\t", "(">> \o Join(<<",", " ">>, [i \in 1..Len(hdr) |-> QuoteColumn(hdr[i])]) \o <<")">>
    \o <<"\n", "V", "A", "L", "U", "E", "S">> \o values

\* what follows the first two fragments, and what follows the last
Terminator == <<";", "\n", "\n">>
LastTerminator == <<";">>

\* a variant that puts the table fragment first
OutputStringTableFirst(sn, tn, hdr, values) ==
    TableFragment(sn, tn, hdr) \o Terminator
    \o SchemaFragment(sn) \o Terminator
    \o InsertFragment(sn, tn, hdr, values) \o LastTerminator

\* f'''{_schema};\n\n{_table};\n\n{_insert};'''
OutputString(sn, tn, hdr, values) ==
    SchemaFragment(sn) \o Terminator
    \o TableFragment(sn, tn, hdr) \o Terminator
    \o InsertFragment(sn, tn, hdr, values) \o LastTerminator

\* filename(file) + '.sql'
OutputName(file_path) == filename(file_path) \o <<".", "s", "q", "l">>

----------------------------------------------------------------------------
(* Reading the source                                                      *)

\* the encoding _get_header opens the source with: csv_postgresql calls
\* _get_header(file), so the parameter __encoding keeps its default
HeaderEncoding(enc) == "utf-8"

\* the encoding _values_str opens the source with: csv_postgresql calls
\* _values_str(file), so the parameter __encoding keeps its default
ValuesEncoding(enc) == "utf-8"

\* the encoding the output is opened with: open(output_name, 'w', encoding=__encoding)
OutputEncoding(enc) == enc

\* does line end with a line terminator
Terminated(line) == Len(line) > 0 /\ line[Len(line)] \in {"\n", "\r"}

\* The body of _get_header on a file holding bytes b.  The text layer decodes
\* the file chunk by chunk: an undecodable byte that lies after the header
\* record is met during this read when it lies in a chunk the read fetches
\* (early), and is not met otherwise.
HeaderRead(b, enc, early) ==
    LET bad == FirstBad(b, enc)
        good == IF bad = 0 THEN b ELSE SubSeq(b, 1, bad - 1)
        lines == SplitLines(Decode(good, enc))
        whole == IF bad = 0 THEN lines ELSE SelectSeq(lines, Terminated)
        r == NextRecord(whole, 1)
    IN IF bad # 0 /\ (early \/ r.stop \/ r.eof)
       THEN [exc |-> "UnicodeDecodeError", value |-> <<>>]
       ELSE IF r.stop THEN [exc |-> "StopIteration", value |-> <<>>]
       ELSE IF r.error THEN [exc |-> "csv.Error", value |-> <<>>]
       ELSE [exc |-> "none", value |-> r.fields]

\* The body of _values_str on a file holding bytes b: the header record is
\* skipped, every other record is formatted.
ValuesRead(b, enc) ==
    LET bad == FirstBad(b, enc)
        lines == SplitLines(Decode(b, enc))
        first == NextRecord(lines, 1)
        rest == RecordsFrom(lines, first.next)
    IN IF bad # 0 THEN [exc |-> "UnicodeDecodeError", value |-> <<>>]
       ELSE IF first.stop THEN [exc |-> "StopIteration", value |-> <<>>]
       ELSE IF first.error \/ rest.error THEN [exc |-> "csv.Error", value |-> <<>>]
       ELSE [exc |-> "none", value |-> FormatRows(rest.rows)]

\* _values_str(file_path, __encoding) on the files on disk
values_str(files, file_path, enc) == ValuesRead(files[file_path], enc)

----------------------------------------------------------------------------
(* The inputs of the model                                                 *)

\* the number of records of the initial source file is at most MaxRecords
MaxRecords == 3

\* csv_postgresql is called at most MaxCalls times
MaxCalls == 2

\* the records source files are made of
SourceRecords ==
    { <<<<"i", "d">>, <<"O", "'", "B">>>>,
      <<<<"x", ",", "\"", "y">>, <<"xE9">>, <<"'", "'">>>> }

RECURSIVE SeqsUpTo(_, _)
\* the sequences over S of length at most n
SeqsUpTo(S, n) ==
    IF n = 0 THEN {<<>>}
    ELSE LET shorter == SeqsUpTo(S, n - 1)
         IN shorter \cup {Append(q, x) : q \in {r \in shorter : Len(r) = n - 1}, x \in S}

\* a field as csv.writer writes it (QUOTE_MINIMAL)
WriteField(item) ==
    IF \E i \in 1..Len(item) : item[i] \in {",", "\"", "\n", "\r"}
    THEN <<"\"">>
         \o Flatten([i \in 1..Len(item) |->
                        IF item[i] = "\"" THEN <<"\"", "\"">> ELSE <<item[i]>>])
         \o <<"\"">>
    ELSE item

\* a record as csv.writer writes it, with the line terminator '\n'
WriteRecord(record) ==
    Join(<<",">>, [i \in 1..Len(record) |-> WriteField(record[i])]) \o <<"\n">>

\* a CSV text holding the records, one per line
WriteCsv(records) == Flatten([i \in 1..Len(records) |-> WriteRecord(records[i])])

\* the paths a call is given
SourcePaths == { <<"a", ".", "s", "q", "l">>,
                 <<"d", "/", "B", " ", "-", "c", ".", "c", "s", "v">> }

\* the schema_name and table_name arguments a call is given
SchemaArgs == { <<>>, <<"S", " ", "-", "t">> }
TableArgs == { <<>>, <<"T", "-", "u">> }

\* the bytes of an output file left by an earlier conversion
OldOutput == <<"o", "l", "d", ";">>

NoCall == [file |-> <<>>, given |-> <<>>, encoding |-> "", ok |-> FALSE, out |-> <<>>]

\* _get_header(file_path, __encoding) on the files on disk
get_header(files, file_path, enc, early) == HeaderRead(files[file_path], enc, early)

----------------------------------------------------------------------------
(* dataframe_info is idle while csv_postgresql is studied                  *)

\* a local variable no assignment has bound yet
Unbound == [bound |-> FALSE, val |-> <<>>]

\* an optional argument left at its default None, and one that is given
None == [some |-> FALSE, val |-> <<>>]
Some(v) == [some |-> TRUE, val |-> v]

InfoIdle ==
    /\ df = <<>>
    /\ dargs = [to_skip_cols |-> None, unique_count_cols |-> None, verbose_cols |-> None]
    /\ dpc = "idle"
    /\ columns = Unbound
    /\ summary = <<>>
    /\ dexc = "none"

----------------------------------------------------------------------------
(* csv_postgresql                                                          *)

\* One source file exists, written as CSV in some encoding; a file of the
\* name the output will have may exist already.
Init ==
    /\ \E p \in SourcePaths, recs \in SeqsUpTo(SourceRecords, MaxRecords), e \in Encodings,
          old \in BOOLEAN :
          /\ fs = [q \in {p} \cup (IF old THEN {OutputName(p)} ELSE {}) |->
                      IF q = p THEN Encode(WriteCsv(recs), e) ELSE OldOutput]
          /\ srcRecords = recs
    /\ calls = 0
    /\ pc = "idle"
    /\ file = <<>>
    /\ schema_name = <<>>
    /\ table_name = <<>>
    /\ encoding = "utf-8"
    /\ given = <<<<>>, <<>>>>
    /\ header = <<>>
    /\ ivalues_string = <<>>
    /\ handles = {}
    /\ opens = <<>>
    /\ exc = "none"
    /\ fs0 = fs
    /\ prev = NoCall
    /\ InfoIdle

\* the file object the n-th open() of the call returned
Handle(n) == [path |-> opens[n].path, mode |-> opens[n].mode, n |-> n]

\* the record of an open() call
OpenCall(path, mode, enc) == [path |-> path, mode |-> mode, encoding |-> enc]

\* the files on disk after bytes b are stored under path
Store(files, path, b) ==
    [q \in DOMAIN files \cup {path} |-> IF q = path THEN b ELSE files[q]]

\* what the call that just ended is remembered by
LastCall ==
    [file |-> file, given |-> given, encoding |-> encoding, ok |-> pc = "done",
     out |-> IF OutputName(file) \in DOMAIN fs THEN fs[OutputName(file)] ELSE <<>>]

\* csv_postgresql(f, s, t, e) is entered: lines 155-168 resolve schema_name
\* and table_name
Enter(f, s, t, e) ==
    /\ calls' = calls + 1
    /\ prev' = IF pc = "idle" THEN prev ELSE LastCall
    /\ file' = f
    /\ given' = <<s, t>>
    /\ encoding' = e
    /\ schema_name' = ResolveName(s, f)
    /\ table_name' = ResolveName(t, f)
    /\ header' = <<>>
    /\ ivalues_string' = <<>>
    /\ opens' = <<>>
    /\ exc' = "none"
    /\ fs0' = fs
    /\ pc' = "get_header"
    /\ UNCHANGED <<fs, srcRecords, handles, infoVars>>

\* the first call
Call(f, s, t, e) ==
    /\ pc = "idle"
    /\ Enter(f, s, t, e)

\* a call that follows a call that has returned or raised
CallAgain(f, s, t, e) ==
    /\ pc \in {"done", "raised"}
    /\ calls < MaxCalls
    /\ Enter(f, s, t, e)

\* open(file_path, newline='', encoding=enc) for reading; success leads to
\* position opened
OpenSource(enc, opened) ==
    /\ opens' = Append(opens, OpenCall(file, "r", enc))
    /\ IF file \in DOMAIN fs
       THEN /\ handles' = handles \cup {[path |-> file, mode |-> "r", n |-> Len(opens) + 1]}
            /\ pc' = opened
            /\ exc' = exc
       ELSE /\ handles' = handles
            /\ pc' = "raised"
            /\ exc' = "FileNotFoundError"

\* a variant in which the file stays open
WithExitLeak(open) == open

\* leaving a with block, normally or by an exception: the file is closed
WithExit(open) == open \ {Handle(Len(opens))}

\* _get_header: the with statement is entered
OpenHeader ==
    /\ pc = "get_header"
    /\ OpenSource(HeaderEncoding(encoding), "header_open")
    /\ UNCHANGED <<fs, srcRecords, calls, file, schema_name, table_name, encoding, given,
                   header, ivalues_string, fs0, prev, infoVars>>

\* _get_header: next(reader), and the with block is left
ReadHeader ==
    /\ pc = "header_open"
    /\ \E early \in BOOLEAN :
          LET r == get_header(fs, file, HeaderEncoding(encoding), early)
          IN /\ header' = r.value
             /\ exc' = r.exc
             /\ pc' = IF r.exc = "none" THEN "values_str" ELSE "raised"
    /\ handles' = WithExit(handles)
    /\ UNCHANGED <<fs, srcRecords, calls, file, schema_name, table_name, encoding, given,
                   ivalues_string, opens, fs0, prev, infoVars>>

\* _values_str: the with statement is entered
OpenValues ==
    /\ pc = "values_str"
    /\ OpenSource(ValuesEncoding(encoding), "values_open")
    /\ UNCHANGED <<fs, srcRecords, calls, file, schema_name, table_name, encoding, given,
                   header, ivalues_string, fs0, prev, infoVars>>

\* a variant in which the output file is created, empty, before the rows are read
AfterValuesEarlyOutput(files, r) == Store(files, OutputName(file), <<>>)

\* the files on disk after _values_str ended with outcome r: it writes nothing
AfterValues(files, r) == files

\* _values_str: the rows are read and formatted, and the with block is left
ReadValues ==
    /\ pc = "values_open"
    /\ LET r == values_str(fs, file, ValuesEncoding(encoding))
       IN /\ ivalues_string' = r.value
          /\ exc' = r.exc
          /\ pc' = IF r.exc = "none" THEN "write" ELSE "raised"
          /\ fs' = AfterValues(fs, r)
    /\ handles' = WithExit(handles)
    /\ UNCHANGED <<srcRecords, calls, file, schema_name, table_name, encoding, given,
                   header, opens, fs0, prev, infoVars>>

\* ouput_string
ouput_string == OutputString(schema_name, table_name, header, ivalues_string)

\* open(output_name, 'w', encoding=__encoding): the file is created or emptied
OpenOutput ==
    /\ pc = "write"
    /\ opens' = Append(opens, OpenCall(OutputName(file), "w", OutputEncoding(encoding)))
    /\ handles' = handles \cup {[path |-> OutputName(file), mode |-> "w", n |-> Len(opens) + 1]}
    /\ fs' = Store(fs, OutputName(file), <<>>)
    /\ pc' = "output_open"
    /\ UNCHANGED <<srcRecords, calls, file, schema_name, table_name, encoding, given,
                   header, ivalues_string, exc, fs0, prev, infoVars>>

\* the lengths a write that fails may have reached
PartialLengths(b) == {0, Len(b) \div 2}

\* output.write(ouput_string), and the with block is left; a write that
\* fails leaves part of the bytes in the file
WriteOutput ==
    /\ pc = "output_open"
    /\ LET b == Encode(ouput_string, OutputEncoding(encoding))
       IN \/ /\ fs' = Store(fs, OutputName(file), b)
             /\ pc' = "done"
             /\ exc' = exc
          \/ \E k \in PartialLengths(b) :
                /\ fs' = Store(fs, OutputName(file), SubSeq(b, 1, k))
                /\ pc' = "raised"
                /\ exc' = "OSError"
    /\ handles' = WithExit(handles)
    /\ UNCHANGED <<srcRecords, calls, file, schema_name, table_name, encoding, given,
                   header, ivalues_string, opens, fs0, prev, infoVars>>

Next ==
    \/ \E f \in SourcePaths, s \in SchemaArgs, t \in TableArgs, e \in Encodings :
          Call(f, s, t, e)
    \/ OpenHeader
    \/ ReadHeader
    \/ OpenValues
    \/ ReadValues
    \/ OpenOutput
    \/ WriteOutput

\* one call of csv_postgresql
Spec == Init /\ [][Next]_vars

NextTwice ==
    \/ Next
    \/ \E f \in SourcePaths, s \in SchemaArgs, t \in TableArgs, e \in Encodings :
          CallAgain(f, s, t, e)

\* calls of csv_postgresql in succession
SpecTwice == Init /\ [][NextTwice]_vars

----------------------------------------------------------------------------
(* summary.py: dataframe_info                                              *)
(*                                                                         *)
(* A dataframe is a sequence of columns [name, values]; a value is a       *)
(* natural number or NaN.  Statistics that need not be whole numbers are   *)
(* kept exactly: a quantile as 100 times its value, a mean as <<sum, n>>.  *)

NaN == 0 - 1

\* the set of values of a list
Range(s) == {s[i] : i \in 1..Len(s)}

\* _disjoint(a, b)
disjoint(a, b) == Range(a) \cap Range(b) = {}

\* list.remove(col): the first occurrence is removed
Remove(list, col) ==
    LET i == CHOOSE j \in 1..Len(list) : list[j] = col /\ \A k \in 1..(j - 1) : list[k] # col
    IN SubSeq(list, 1, i - 1) \o SubSeq(list, i + 1, Len(list))

RECURSIVE RemoveAll(_, _)
\* for col in to_skip_cols: columns.remove(col); ok is FALSE when a remove
\* raised ValueError
RemoveAll(list, cols) ==
    IF cols = <<>> THEN [ok |-> TRUE, val |-> list]
    ELSE IF Head(cols) \notin Range(list) THEN [ok |-> FALSE, val |-> list]
    ELSE RemoveAll(Remove(list, Head(cols)), Tail(cols))

\* list(df.columns)
ColumnNames(d) == [i \in 1..Len(d) |-> d[i].name]

\* df[col]
Series(d, col) == CHOOSE i \in 1..Len(d) : d[i].name = col

\* df[col] as its list of values
Values(d, col) == d[Series(d, col)].values

\* series.dropna()
DropNa(vals) == SelectSeq(vals, LAMBDA v : v # NaN)

\* str(df[col].dtype): a column holding NaN is a float column
DType(vals) == IF NaN \in Range(vals) THEN "float64" ELSE "int64"

\* the values in increasing order
RECURSIVE Sorted(_)
Sorted(vals) ==
    IF vals = <<>> THEN <<>>
    ELSE LET m == CHOOSE v \in Range(vals) : \A w \in Range(vals) : v <= w
             i == CHOOSE j \in 1..Len(vals) : vals[j] = m
         IN <<m>> \o Sorted(SubSeq(vals, 1, i - 1) \o SubSeq(vals, i + 1, Len(vals)))

\* series.quantile(q / 100), times 100; NaN for a series without values
Quantile100(vals, q) ==
    LET v == Sorted(DropNa(vals))
        n == Len(v)
        lo == (q * (n - 1)) \div 100
        frac == (q * (n - 1)) % 100
    IN IF n = 0 THEN NaN
       ELSE IF frac = 0 THEN 100 * v[lo + 1]
       ELSE 100 * v[lo + 1] + frac * (v[lo + 2] - v[lo + 1])

\* _percentile_count(series, percentile_value), the percentile given times 100
percentile_count(vals, pv100) ==
    IF pv100 = NaN THEN 0
    ELSE Cardinality({v \in Range(DropNa(vals)) : 100 * v < pv100})

RECURSIVE Sum(_)
Sum(vals) == IF vals = <<>> THEN 0 ELSE Head(vals) + Sum(Tail(vals))

\* the ten statistics of a verbose column, in the order of the list statistics
VerboseStats(vals) ==
    LET v == Sorted(DropNa(vals))
    IN << IF v = <<>> THEN NaN ELSE v[1],
          IF v = <<>> THEN NaN ELSE v[Len(v)],
          <<Sum(v), Len(v)>>,
          Quantile100(vals, 50),
          Quantile100(vals, 75), percentile_count(vals, Quantile100(vals, 75)),
          Quantile100(vals, 90), percentile_count(vals, Quantile100(vals, 90)),
          Quantile100(vals, 95), percentile_count(vals, Quantile100(vals, 95)) >>

statistics ==
    << "Minimum", "Maximum", "Mean", "Median", "75th Percentile",
       "75th Percentile - Unique Count", "90th Percentile",
       "90th Percentile - Unique Count", "95th Percentile",
       "95th Percentile - Unique Count" >>

\* the summary dict of lines 73-162, as its items in insertion order
BuildSummary(d, cols, args) ==
    << [key |-> "Columns", vals |-> cols],
       [key |-> "Data Type", vals |-> [i \in 1..Len(cols) |-> DType(Values(d, cols[i]))]],
       [key |-> "Non-Null Count",
        vals |-> [i \in 1..Len(cols) |-> Len(DropNa(Values(d, cols[i])))]] >>
    \o (IF args.unique_count_cols.some
        THEN << [key |-> "Unique Count",
                 vals |-> [i \in 1..Len(cols) |->
                             IF cols[i] \in Range(args.unique_count_cols.val)
                             THEN Cardinality(Range(Values(d, cols[i])))
                             ELSE NaN]] >>
        ELSE <<>>)
    \o (IF args.verbose_cols.some
        THEN [k \in 1..Len(statistics) |->
                 [key |-> statistics[k],
                  vals |-> [i \in 1..Len(cols) |->
                              IF cols[i] \in Range(args.verbose_cols.val)
                              THEN VerboseStats(Values(d, cols[i]))[k]
                              ELSE NaN]]]
        ELSE <<>>)

\* the dataframes and arguments dataframe_info is called with
ColumnValues == { <<1, 2, 2, 5>>, <<NaN, 3, 3, 4>>, <<NaN, NaN, NaN, NaN>> }
ColumnSets == { <<>>, <<"a">>, <<"a", "b">>, <<"b", "a">> }
Frames ==
    UNION { { [i \in 1..Len(names) |-> [name |-> names[i], values |-> vs[i]]] :
                vs \in [1..Len(names) -> ColumnValues] } : names \in ColumnSets }
SkipArgs == { None, Some(<<>>), Some(<<"a">>), Some(<<"z">>) }
UniqueArgs == { None, Some(<<"a">>) }
VerboseArgs == { None, Some(<<"a">>), Some(<<"b">>) }

\* csv_postgresql is idle while dataframe_info is studied
CsvIdle ==
    /\ fs = <<>>
    /\ srcRecords = <<>>
    /\ calls = 0
    /\ pc = "idle"
    /\ file = <<>>
    /\ schema_name = <<>>
    /\ table_name = <<>>
    /\ encoding = "utf-8"
    /\ given = <<<<>>, <<>>>>
    /\ header = <<>>
    /\ ivalues_string = <<>>
    /\ handles = {}
    /\ opens = <<>>
    /\ exc = "none"
    /\ fs0 = <<>>
    /\ prev = NoCall

InitInfo ==
    /\ CsvIdle
    /\ df \in Frames
    /\ dargs = [to_skip_cols |-> None, unique_count_cols |-> None, verbose_cols |-> None]
    /\ dpc = "idle"
    /\ columns = Unbound
    /\ summary = <<>>
    /\ dexc = "none"

\* dataframe_info(df, skip, uniq, verb) is called
InfoCall(skip, uniq, verb) ==
    /\ dpc = "idle"
    /\ dargs' = [to_skip_cols |-> skip, unique_count_cols |-> uniq, verbose_cols |-> verb]
    /\ dpc' = "check"
    /\ UNCHANGED <<df, columns, summary, dexc, csvVars>>

\* lines 55-69: the block under "if to_skip_cols is not None"; only there is
\* the local columns assigned
InfoCheck ==
    /\ dpc = "check"
    /\ IF ~dargs.to_skip_cols.some
       THEN /\ dpc' = "summarize"
            /\ UNCHANGED <<columns, dexc>>
       ELSE IF \/ dargs.verbose_cols.some
                  /\ ~disjoint(dargs.to_skip_cols.val, dargs.verbose_cols.val)
               \/ dargs.unique_count_cols.some
                  /\ ~disjoint(dargs.to_skip_cols.val, dargs.unique_count_cols.val)
               \/ ~RemoveAll(ColumnNames(df), dargs.to_skip_cols.val).ok
            THEN /\ dpc' = "raised"
                 /\ dexc' = "ValueError"
                 /\ UNCHANGED columns
            ELSE /\ columns' = [bound |-> TRUE,
                                val |-> RemoveAll(ColumnNames(df), dargs.to_skip_cols.val).val]
                 /\ dpc' = "summarize"
                 /\ UNCHANGED dexc
    /\ UNCHANGED <<df, dargs, summary, csvVars>>

\* lines 73-165: summary is built from columns and returned; reading the
\* local columns while it is unbound raises UnboundLocalError
InfoSummarize ==
    /\ dpc = "summarize"
    /\ IF columns.bound
       THEN /\ summary' = BuildSummary(df, columns.val, dargs)
            /\ dpc' = "returned"
            /\ UNCHANGED dexc
       ELSE /\ dexc' = "UnboundLocalError"
            /\ dpc' = "raised"
            /\ UNCHANGED summary
    /\ UNCHANGED <<df, dargs, columns, csvVars>>

NextInfo ==
    \/ \E skip \in SkipArgs, uniq \in UniqueArgs, verb \in VerboseArgs :
          InfoCall(skip, uniq, verb)
    \/ InfoCheck
    \/ InfoSummarize

SpecInfo == InitInfo /\ [][NextInfo]_vars

----------------------------------------------------------------------------
(* Properties of csv_postgresql and dataframe_info                         *)

Returned == pc = "done"
Raised == pc = "raised"
InCall == pc # "idle"

\* the exceptions reading the source ends with
ReadFailures == {"FileNotFoundError", "UnicodeDecodeError", "StopIteration", "csv.Error"}

WriteOpens == {i \in 1..Len(opens) : opens[i].mode = "w"}
ReadOpens == {i \in 1..Len(opens) : opens[i].mode = "r" /\ opens[i].path = file}

\* C1: when reading the source fails (file missing, bytes undecodable, no
\* header record) the call ends with an error and the files on disk are
\* what they were when the call started; the output is opened for writing
\* only after the header read and the row read have both succeeded.
C1_ReadFailureWritesNothing ==
    /\ (Raised /\ exc \in ReadFailures) => (fs = fs0 /\ WriteOpens = {})
    /\ WriteOpens # {} =>
          /\ WriteOpens = {3}
          /\ ReadOpens = {1, 2}
          /\ exc \notin ReadFailures
    /\ Returned =>
          /\ file \in DOMAIN fs0
          /\ fs0[file] # <<>>
          /\ FirstBad(fs0[file], HeaderEncoding(encoding)) = 0

\* C1 witness: the header read succeeded, the row read met an undecodable
\* byte, the call ended with the error, and the output file of an earlier
\* conversion is as it was
C1_Witness ==
    /\ Raised
    /\ exc = "UnicodeDecodeError"
    /\ Len(opens) = 2
    /\ header # <<>>
    /\ OutputName(file) \in DOMAIN fs0
    /\ fs[OutputName(file)] = OldOutput

\* C2: every open() of a call uses the encoding the caller passed.
C2_CallerEncodingEverywhere ==
    \A i \in 1..Len(opens) : opens[i].encoding = encoding

\* the text a name is resolved from: the override, or the stem of the path
RawName(arg) == IF arg = <<>> THEN BeforeFirstDot(Basename(file)) ELSE arg

\* C3 as claimed: every maximal run of whitespace or hyphen characters of a
\* name becomes exactly one underscore.
C3_RunsBecomeOneUnderscore ==
    InCall =>
       /\ schema_name = Lower(SubRuns(RawName(given[1])))
       /\ table_name = Lower(SubRuns(RawName(given[2])))

CharwiseNormalized(raw, name) ==
    /\ Len(name) = Len(raw)
    /\ \A i \in 1..Len(raw) :
          IF raw[i] \in SepChars THEN name[i] = "_" ELSE name[i] = LowerChar(raw[i])

\* C3 amended: every whitespace or hyphen character of a name becomes one
\* underscore, so a run of k such characters becomes k underscores; the
\* other characters are kept, lowercased.
C3_EachSeparatorBecomesUnderscore ==
    InCall =>
       /\ CharwiseNormalized(RawName(given[1]), schema_name)
       /\ CharwiseNormalized(RawName(given[2]), table_name)

\* C3 witness: a run of two separators, in the override and in the path
C3_Witness ==
    /\ InCall
    /\ given[1] = <<"S", " ", "-", "t">>
    /\ schema_name = <<"s", "_", "_", "t">>
    /\ given[2] = <<>>
    /\ table_name = <<"b", "_", "_", "c">>

\* C4: two calls in succession with the same source path, schema_name,
\* table_name and encoding, the first of which succeeded, leave byte-identical
\* output files.
C4_SameCallSameOutput ==
    ( /\ Returned
      /\ prev.ok
      /\ prev.file = file
      /\ prev.given = given
      /\ prev.encoding = encoding )
    => fs[OutputName(file)] = prev.out

RECURSIVE C5_Doubled(_)
C5_Doubled(item) ==
    IF item = <<>> THEN <<>>
    ELSE (IF Head(item) = "'" THEN <<"'", "'">> ELSE <<Head(item)>>) \o C5_Doubled(Tail(item))

RECURSIVE C5_Fields(_)
C5_Fields(row) ==
    IF row = <<>> THEN <<>>
    ELSE <<"'">> \o C5_Doubled(Head(row)) \o <<"'">>
         \o (IF Len(row) > 1 THEN <<",", " ">> ELSE <<>>) \o C5_Fields(Tail(row))

RECURSIVE C5_Rows(_)
C5_Rows(rows) ==
    IF rows = <<>> THEN <<>>
    ELSE <<"\n", "\t", "(">> \o C5_Fields(Head(rows)) \o <<")">>
         \o (IF Len(rows) > 1 THEN <<",", " ">> ELSE <<>>) \o C5_Rows(Tail(rows))

\* the first call has read the rows of the source the model started with
RowsRead == calls = 1 /\ pc \in {"write", "output_open", "done"}

\* C5: for a source with a header, _values_str returns, for each record after
\* the header, in file order, newline, tab, '(', the fields in single quotes
\* with every single quote doubled and joined by ', ', ')'; the rows are
\* joined by ', '.  The header is left out, no record is dropped or reordered,
\* and a record with another field count than the header is formatted alike.
C5_ValuesText ==
    /\ RowsRead => ivalues_string = C5_Rows(Tail(srcRecords))
    /\ (calls = 1 /\ Raised /\ Len(opens) = 2) => exc = "UnicodeDecodeError"

\* C5 witness: two different data records, of two and of three fields, with
\* single quotes in them
C5_Witness ==
    /\ RowsRead
    /\ Len(srcRecords) = 3
    /\ Len(srcRecords[1]) = 2
    /\ Len(srcRecords[2]) = 3
    /\ Len(srcRecords[3]) = 2
    /\ \E i \in 1..3 : srcRecords[2][i] = <<"'", "'">>

\* the text of the output file, read back with the encoding it was written in
WrittenText == Decode(fs[OutputName(file)], encoding)

\* C6 as claimed: the text written is the schema, table and insert fragments
\* in this order, each of the three followed by ';' and a blank line.
C6_EveryFragmentThenBlankLine ==
    Returned =>
       WrittenText =
          SchemaFragment(schema_name) \o <<";", "\n", "\n">>
          \o TableFragment(schema_name, table_name, header) \o <<";", "\n", "\n">>
          \o InsertFragment(schema_name, table_name, header, ivalues_string)
          \o <<";", "\n", "\n">>

\* C6 amended: the text written is the schema, table and insert fragments in
\* this order; the first two are each followed by ';' and a blank line, the
\* last by ';' alone, which ends the text.
C6_LastFragmentThenSemicolon ==
    Returned =>
       WrittenText =
          SchemaFragment(schema_name) \o <<";", "\n", "\n">>
          \o TableFragment(schema_name, table_name, header) \o <<";", "\n", "\n">>
          \o InsertFragment(schema_name, table_name, header, ivalues_string)
          \o <<";">>

\* C6 witness: a script with columns and rows has been written
C6_Witness ==
    /\ Returned
    /\ header # <<>>
    /\ ivalues_string # <<>>
    /\ Len(WrittenText) > 0

IsIdentifier(name) ==
    \A i \in 1..Len(name) :
       /\ name[i] \notin SepChars
       /\ name[i] \notin Range(UpperChars)

\* C7: the schema name and the table name of a call are lowercase and hold
\* no whitespace and no hyphen, derived from the path or given explicitly.
C7_NamesAreIdentifiers ==
    InCall => (IsIdentifier(schema_name) /\ IsIdentifier(table_name))

\* C7 witness: a script was written under an explicit schema name and a table
\* name derived from the path, both from text with capitals and separators
C7_Witness ==
    /\ Returned
    /\ given = << <<"S", " ", "-", "t">>, <<>> >>
    /\ file = <<"d", "/", "B", " ", "-", "c", ".", "c", "s", "v">>
    /\ schema_name = <<"s", "_", "_", "t">>
    /\ table_name = <<"b", "_", "_", "c">>

DefaultArgs ==
    /\ ~dargs.to_skip_cols.some
    /\ ~dargs.unique_count_cols.some
    /\ ~dargs.verbose_cols.some

\* C8: dataframe_info called with a dataframe alone does not end in an error
\* and returns a table of the columns "Columns", "Data Type", "Non-Null
\* Count" with one row per column of the dataframe.
C8_DefaultCallReturnsSummary ==
    (DefaultArgs /\ dpc \in {"returned", "raised"}) =>
       /\ dpc = "returned"
       /\ dexc = "none"
       /\ [i \in 1..Len(summary) |-> summary[i].key]
             = <<"Columns", "Data Type", "Non-Null Count">>
       /\ \A i \in 1..Len(summary) : Len(summary[i].vals) = Len(df)

\* C9: at most one file is open at any moment, no file is open once the call
\* has returned or raised, and a call that returns has opened the source
\* exactly twice.
C9_HandlesClosed ==
    /\ Cardinality(handles) <= 1
    /\ pc \in {"idle", "done", "raised"} => handles = {}
    /\ pc \in {"get_header", "values_str", "write"} => handles = {}
    /\ Returned => (Cardinality(ReadOpens) = 2 /\ Len(opens) = 3)

\* C9 witness: the write failed part-way and the call raised
C9_Witness ==
    /\ Raised
    /\ exc = "OSError"
    /\ Len(opens) = 3
    /\ handles = {}

\* C10: a call leaves the source file as it was, and the file it writes is
\* not the source.
C10_SourceUnchanged ==
    (file \in DOMAIN fs0 /\ pc \in {"output_open", "done", "raised"}) =>
       /\ fs[file] = fs0[file]
       /\ WriteOpens # {} => OutputName(file) # file

====
